---- MODULE Spec2Model ----
(***************************************************************************)
(* Model of src/TimbersportsScraper.py (class StihlTimberScraper).         *)
(*                                                                         *)
(* Text is modelled as a sequence of one-character strings, so that the    *)
(* regular-expression searches, strip(), lower() and int()/str() of the    *)
(* source are computed rather than assumed.  A link target (href) and a    *)
(* URL are sequences of path tokens, "BASE" standing for the origin        *)
(* https://data.stihl-timbersports.com.  A discipline label is a sequence  *)
(* of words.  A fetched page is a sequence of elements in document order.  *)
(***************************************************************************)
EXTENDS Integers, Sequences, FiniteSets, TLC

VARIABLES
    pc,            \* position of the running operation
    soup,          \* what get_page returned for the event page being processed
    results,       \* parse_event_results: the records returned
    scan_results,  \* _get_athlete_results_from_event: the records returned
    athlete_name,  \* the resolved display name used by the athlete scan
    athlete_url,   \* the resolved profile URL used by the athlete scan
    discipline_label, \* the label _parse_discipline_section is called with
    site,          \* the website: what a GET of each URL returns
    fetch_log,     \* the URLs requested so far, in order
    season,        \* get_events: the season argument ("" for None)
    seasons_list,  \* get_events: the seasons_list argument
    limit,         \* get_events: the limit argument
    pending,       \* get_events: the seasons still to be listed
    all_events,    \* get_events: the events collected
    athlete_name_or_url, \* scrape_athlete_profile: the name or URL asked for
    seasons_to_search,   \* scrape_athlete_profile: the seasons to scan
    all_results,   \* scrape_athlete_profile: the records collected by the scan
    df,            \* scrape_athlete_profile: the result returned
    start_year,    \* detect_all_available_seasons: the earliest year to check
    end_year,      \* detect_all_available_seasons: the latest year to check
    current_year,  \* detect_all_available_seasons: datetime.now().year
    year,          \* detect_all_available_seasons: the next year of the loop
    probe_events,  \* detect_all_available_seasons: the events of the last probe
    available_seasons \* detect_all_available_seasons: the seasons found

pageVars == <<soup, results, scan_results, athlete_name, athlete_url, discipline_label>>
listVars == <<site, fetch_log, season, seasons_list, limit, pending, all_events>>
queryVars == <<athlete_name_or_url, seasons_to_search, all_results, df>>
detectVars == <<start_year, end_year, current_year, year, probe_events, available_seasons>>

vars == <<pc, pageVars, listVars, queryVars, detectVars>>

----------------------------------------------------------------------------
(* Bounds *)

MaxWoodLen == 5      \* longest wood text drawn
MaxElems   == 4      \* most elements of a drawn event page
MaxRows    == 3      \* most rows of a drawn results table, header included
MaxLabelLen == 3     \* most words of a drawn discipline label
MaxSeasons == 2      \* most seasons of a drawn season list
MaxLimit   == 3      \* largest limit drawn
MaxListRows == 3     \* most rows of a drawn listing page
MaxScanSeasons == 2  \* most seasons an athlete query is asked to scan
MaxDown    == 1      \* most URLs failing during one step of an athlete query
MaxParas   == 3      \* most paragraphs between a section anchor and its table

----------------------------------------------------------------------------
(* Text helpers *)

Letters == {"P", "c", "m"}
Digits  == {"0", "3"}
Space   == " "
Paren   == "("
WoodChars == Letters \cup Digits \cup {Space, Paren}

SeqsUpTo(S, n) == UNION {[1..k -> S] : k \in 0..n}

Take(s, n) == SubSeq(s, 1, IF n < Len(s) THEN n ELSE Len(s))

\* the members of a set of positions in ascending order
RECURSIVE Ascending(_)
Ascending(S) ==
    IF S = {} THEN <<>>
    ELSE LET least == CHOOSE x \in S : \A y \in S : x <= y
         IN  <<least>> \o Ascending(S \ {least})

\* str.strip(): leading and trailing whitespace removed
RECURSIVE LStrip(_)
LStrip(s) == IF s # <<>> /\ Head(s) = Space THEN LStrip(Tail(s)) ELSE s

RECURSIVE RStrip(_)
RStrip(s) == IF s # <<>> /\ s[Len(s)] = Space THEN RStrip(SubSeq(s, 1, Len(s) - 1)) ELSE s

Strip(s) == RStrip(LStrip(s))

\* the end (exclusive) of the maximal run of characters of class C starting at i
RECURSIVE RunEnd(_, _, _)
RunEnd(s, i, C) == IF i <= Len(s) /\ s[i] \in C THEN RunEnd(s, i + 1, C) ELSE i

DigitValue(d) == IF d = "3" THEN 3 ELSE 0

\* int(text) for a run of decimal digits
RECURSIVE StrToInt(_)
StrToInt(s) == IF s = <<>> THEN 0
               ELSE 10 * StrToInt(SubSeq(s, 1, Len(s) - 1)) + DigitValue(s[Len(s)])

DigitChar(n) == CASE n = 0 -> "0" [] n = 1 -> "1" [] n = 2 -> "2" [] n = 3 -> "3"
                  [] n = 4 -> "4" [] n = 5 -> "5" [] n = 6 -> "6" [] n = 7 -> "7"
                  [] n = 8 -> "8" [] n = 9 -> "9"

\* str(n) for n >= 0
RECURSIVE IntToStr(_)
IntToStr(n) == IF n < 10 THEN <<DigitChar(n)>>
               ELSE Append(IntToStr(n \div 10), DigitChar(n % 10))

----------------------------------------------------------------------------
(* Wood description *)

\* re.search(r'(\d+)\s*cm', wood_info) matching at position i
SizeMatchAt(w, i) ==
    /\ w[i] \in Digits
    /\ LET k == RunEnd(w, RunEnd(w, i, Digits), {Space})
       IN  k + 1 <= Len(w) /\ w[k] = "c" /\ w[k + 1] = "m"

\* re.search(r'([A-Za-z]+)\s*\(', wood_info) matching at position i
SpeciesMatchAt(w, i) ==
    /\ w[i] \in Letters
    /\ LET k == RunEnd(w, RunEnd(w, i, Letters), {Space})
       IN  k <= Len(w) /\ w[k] = Paren

\* re.search returns the leftmost match
Leftmost(S) == CHOOSE i \in S : \A j \in S : i <= j

\* WoodSizeMm without the conversion from centimetres to millimetres
WoodSizeMm_Unscaled(wood_info) ==
    LET at == {i \in 1..Len(wood_info) : SizeMatchAt(wood_info, i)}
    IN  IF wood_info = <<>> \/ at = {} THEN <<>>
        ELSE LET i == Leftmost(at)
             IN  IntToStr(StrToInt(SubSeq(wood_info, i, RunEnd(wood_info, i, Digits) - 1)))

\* lines 282-289 / 452-457: the size in millimetres, "" when there is none
WoodSizeMm(wood_info) ==
    LET at == {i \in 1..Len(wood_info) : SizeMatchAt(wood_info, i)}
    IN  IF wood_info = <<>> \/ at = {} THEN <<>>
        ELSE LET i == Leftmost(at)
                 size_cm == StrToInt(SubSeq(wood_info, i, RunEnd(wood_info, i, Digits) - 1))
             IN  IntToStr(size_cm * 10)

\* lines 291-294 / 458-460: the species, "" when there is none
WoodSpecies(wood_info) ==
    LET at == {i \in 1..Len(wood_info) : SpeciesMatchAt(wood_info, i)}
    IN  IF wood_info = <<>> \/ at = {} THEN <<>>
        ELSE LET i == Leftmost(at)
             IN  SubSeq(wood_info, i, RunEnd(wood_info, i, Letters) - 1)

----------------------------------------------------------------------------
(* Pages *)

\* What get_page returns: None, or the parsed page (its elements in document order)
NoPage     == [ok |-> FALSE, body |-> <<>>]
Page(body) == [ok |-> TRUE, body |-> body]

NoElem == 0          \* find / find_next found nothing

BASE_URL == <<"BASE">>

UnderhandChop     == <<"Underhand", "Chop">>
StandingBlockChop == <<"Standing", "Block", "Chop">>

\* f'Round{r}{discipline_name.replace(" ", "")}'
RoundTok(r) == CASE r = 1 -> "Round1" [] r = 2 -> "Round2" [] r = 3 -> "Round3"
AnchorId(r, label) == <<RoundTok(r)>> \o label

\* A paragraph: marker says its text contains 'Competition Wood:', stars that
\* '**' inner '**' follows the marker, inner is the text between the stars (or
\* the rest of the paragraph).
NoPara == [marker |-> FALSE, stars |-> FALSE, inner |-> <<>>]

\* Elements of a page, in document order
Anchor(id)   == [tag |-> "a",     id |-> id,   para |-> NoPara, rows |-> <<>>, text |-> <<>>]
Para(p)      == [tag |-> "p",     id |-> <<>>, para |-> p,      rows |-> <<>>, text |-> <<>>]
Table(rows)  == [tag |-> "table", id |-> <<>>, para |-> NoPara, rows |-> rows, text |-> <<>>]
Heading(t)   == [tag |-> "h2",    id |-> <<>>, para |-> NoPara, rows |-> <<>>, text |-> t]

\* A table row: n <td> cells; cell 1 holds the text name and, when link is
\* TRUE, an <a> around it with target href; time is the text of cell 4 and
\* markers the text of cell 5 (each read only when the row has that cell).
Row(n, name, link, href, time, markers) ==
    [n |-> n, name |-> name, link |-> link, href |-> href,
     time |-> time, markers |-> markers]

\* soup.find(id=...): the first element of the page with that id
FindId(page, id) ==
    LET at == {i \in 1..Len(page) : page[i].tag = "a" /\ page[i].id = id}
    IN  IF at = {} THEN NoElem ELSE Leftmost(at)

\* element.find_next(tag): the first element with that tag after position i
FindNext(page, i, tag) ==
    LET at == {j \in (i + 1)..Len(page) : page[j].tag = tag}
    IN  IF at = {} THEN NoElem ELSE Leftmost(at)

\* lines 235-240 / 444-449
WoodInfo(page, section) ==
    LET prev == FindNext(page, section, "p")
    IN  IF prev # NoElem /\ page[prev].para.marker
           /\ page[prev].para.stars /\ page[prev].para.inner # <<>>
        THEN Strip(page[prev].para.inner)
        ELSE <<>>

\* lines 279 / 482: "SB" if "Standing Block" in discipline_name else "UH"
Contains(hay, needle) ==
    \E i \in 0..(Len(hay) - Len(needle)) :
        SubSeq(hay, i + 1, i + Len(needle)) = needle

\* DisciplineAbbrev comparing the whole label instead of searching in it
DisciplineAbbrev_WholeLabel(label) ==
    IF label = <<"Standing", "Block">> THEN "SB" ELSE "UH"

DisciplineAbbrev(label) ==
    IF Contains(label, <<"Standing", "Block">>) THEN "SB" ELSE "UH"

\* lines 252-259
AthleteUrlOf(row) == IF row.link THEN BASE_URL \o row.href ELSE <<>>

\* one row of lines 244-306
ParseRow(row, discipline_name, event_name, wood_info) ==
    [ProfileURL |-> AthleteUrlOf(row),
     Name       |-> Strip(row.name),
     Discipline |-> DisciplineAbbrev(discipline_name),
     Time       |-> IF row.n > 4 THEN row.time ELSE <<>>,
     Size       |-> WoodSizeMm(wood_info),
     Species    |-> WoodSpecies(wood_info),
     EventName  |-> event_name,
     Markers    |-> IF row.n > 5 THEN row.markers ELSE <<>>]

\* line 246: if len(cells) < 4: continue
RowParsed(row) == ~(row.n < 4)

RECURSIVE ParseRows(_, _, _, _)
ParseRows(rows, discipline_name, event_name, wood_info) ==
    IF rows = <<>> THEN <<>>
    ELSE (IF RowParsed(Head(rows))
          THEN <<ParseRow(Head(rows), discipline_name, event_name, wood_info)>>
          ELSE <<>>)
         \o ParseRows(Tail(rows), discipline_name, event_name, wood_info)

\* rows[1:]
SkipHeader(rows) == IF rows = <<>> THEN <<>> ELSE Tail(rows)

\* lines 223-308
ParseDisciplineSection(page, section_anchor, discipline_name, event_name) ==
    LET table == FindNext(page, section_anchor, "table")
    IN  IF table = NoElem THEN <<>>
        ELSE ParseRows(SkipHeader(page[table].rows), discipline_name, event_name,
                       WoodInfo(page, section_anchor))

\* lines 194-196, 208-210 and 432-438: the first of the three anchors that exists
Rounds == <<1, 2, 3>>

\* FirstAnchor looking for the Round1 anchor only
RECURSIVE FirstAnchor_Round1Only(_, _, _)
FirstAnchor_Round1Only(page, discipline_name, rounds) ==
    IF rounds = <<>> THEN NoElem
    ELSE FindId(page, AnchorId(Head(rounds), discipline_name))

RECURSIVE FirstAnchor(_, _, _)
FirstAnchor(page, discipline_name, rounds) ==
    IF rounds = <<>> THEN NoElem
    ELSE LET section == FindId(page, AnchorId(Head(rounds), discipline_name))
         IN  IF section # NoElem THEN section
             ELSE FirstAnchor(page, discipline_name, Tail(rounds))

FindSection(page, discipline_name) == FirstAnchor(page, discipline_name, Rounds)

\* lines 160-221
ParseEventResults(fetched, event_name) ==
    IF ~fetched.ok THEN <<>>
    ELSE LET page == fetched.body
             underhand_section == FindSection(page, UnderhandChop)
             standing_section  == FindSection(page, StandingBlockChop)
         IN  (IF underhand_section # NoElem
              THEN ParseDisciplineSection(page, underhand_section, UnderhandChop, event_name)
              ELSE <<>>)
             \o
             (IF standing_section # NoElem
              THEN ParseDisciplineSection(page, standing_section, StandingBlockChop, event_name)
              ELSE <<>>)

\* str.lower()
LowerChar(c) == IF c = "A" THEN "a" ELSE IF c = "B" THEN "b" ELSE c
Lower(s) == [i \in 1..Len(s) |-> LowerChar(s[i])]

\* line 471: if len(cells) < 5: continue
RowScanned(row) == ~(row.n < 5)

\* line 478: athlete_name.lower() in row_athlete_name.lower()
NameMatches(name, row) == Contains(Lower(Strip(row.name)), Lower(name))

\* ScanRow taking the profile URL from the link of the row, as ParseRow does
ScanRow_RowLink(row, discipline_name, event_name, wood_info, url) ==
    ParseRow(row, discipline_name, event_name, wood_info)

\* one row of lines 469-494
ScanRow(row, discipline_name, event_name, wood_info, url) ==
    [ProfileURL |-> url,
     Name       |-> Strip(row.name),
     Discipline |-> DisciplineAbbrev(discipline_name),
     Time       |-> IF row.n > 4 THEN row.time ELSE <<>>,
     Size       |-> WoodSizeMm(wood_info),
     Species    |-> WoodSpecies(wood_info),
     EventName  |-> event_name,
     Markers    |-> IF row.n > 5 THEN row.markers ELSE <<>>]

RECURSIVE ScanRows(_, _, _, _, _, _)
ScanRows(rows, discipline_name, event_name, wood_info, name, url) ==
    IF rows = <<>> THEN <<>>
    ELSE (IF RowScanned(Head(rows)) /\ NameMatches(name, Head(rows))
          THEN <<ScanRow(Head(rows), discipline_name, event_name, wood_info, url)>>
          ELSE <<>>)
         \o ScanRows(Tail(rows), discipline_name, event_name, wood_info, name, url)

\* lines 431-494 for one discipline
ScanDiscipline(page, discipline_name, event_name, name, url) ==
    LET section == FindSection(page, discipline_name)
        table   == FindNext(page, section, "table")
    IN  IF section = NoElem THEN <<>>
        ELSE IF table = NoElem THEN <<>>
        ELSE ScanRows(SkipHeader(page[table].rows), discipline_name, event_name,
                      WoodInfo(page, section), name, url)

\* lines 413-496
GetAthleteResultsFromEvent(fetched, event_name, name, url) ==
    IF ~fetched.ok THEN <<>>
    ELSE ScanDiscipline(fetched.body, UnderhandChop, event_name, name, url)
         \o ScanDiscipline(fetched.body, StandingBlockChop, event_name, name, url)

----------------------------------------------------------------------------
(* Listing pages *)

NoSeason == ""                               \* season is None
NoLimit  == [present |-> FALSE, n |-> 0]     \* limit is None
Limit(n) == [present |-> TRUE, n |-> n]

\* "if limit": None and 0 are both false
Truthy(lim) == lim.present /\ lim.n # 0

\* lines 87-90
ListingUrl(s) ==
    BASE_URL \o <<"/Results">> \o (IF s # NoSeason THEN <<"?season=", s>> ELSE <<>>)

DigitToks == {"1", "2", "3", "4"}

\* href=re.compile(r'/Event/\d+'): the pattern is searched anywhere in the target
IsEventRef(href) ==
    \E i \in 1..(Len(href) - 1) : href[i] = "/Event/" /\ href[i + 1] \in DigitToks

Link(href, text) == [href |-> href, text |-> text]

\* a <tr> of a listing page: its links in document order and its <td> texts
ListRow(links, cells) == [links |-> links, cells |-> cells]

\* FindEventLink taking the first link of the row, whatever its target
FindEventLink_AnyLink(row) == IF row.links = <<>> THEN NoElem ELSE 1

\* row.find('a', href=...): the first matching link of the row, 0 if none
FindEventLink(row) ==
    LET at == {i \in 1..Len(row.links) : IsEventRef(row.links[i].href)}
    IN  IF at = {} THEN NoElem ELSE Leftmost(at)

\* lines 102-119
EventEntry(row) ==
    LET link == row.links[FindEventLink(row)]
    IN  [name          |-> link.text,
         url           |-> BASE_URL \o link.href,
         date_location |-> IF Len(row.cells) >= 2 THEN row.cells[1] ELSE <<>>,
         nation        |-> IF Len(row.cells) >= 2 THEN row.cells[2] ELSE <<>>]

\* lines 99-122: the loop over the rows, with its break at the limit
RECURSIVE ListLoop(_, _, _)
ListLoop(event_rows, events, lim) ==
    IF event_rows = <<>> THEN events
    ELSE IF FindEventLink(Head(event_rows)) # NoElem
         THEN LET appended == Append(events, EventEntry(Head(event_rows)))
              IN  IF Truthy(lim) /\ Len(appended) >= lim.n THEN appended
                  ELSE ListLoop(Tail(event_rows), appended, lim)
         ELSE ListLoop(Tail(event_rows), events, lim)

\* lines 85-124, given what get_page returned
GetEventsForSeason(fetched, lim) ==
    IF ~fetched.ok THEN <<>> ELSE ListLoop(fetched.body, <<>>, lim)

\* lines 62-76: which listings get_events asks for, in order
SeasonsToList(one, many) ==
    IF many # <<>> THEN many
    ELSE IF one # NoSeason THEN <<one>>
    ELSE <<NoSeason>>

\* lines 79-80
ApplyLimit(events, lim) ==
    IF Truthy(lim) /\ Len(events) > lim.n THEN Take(events, lim.n) ELSE events

\* the variables of get_events while another operation runs
ListIdle ==
    /\ site = <<>>
    /\ fetch_log = <<>>
    /\ season = NoSeason
    /\ seasons_list = <<>>
    /\ limit = NoLimit
    /\ pending = <<>>
    /\ all_events = <<>>

\* the variables of scrape_athlete_profile while another operation runs
QueryIdle ==
    /\ athlete_name_or_url = <<>>
    /\ seasons_to_search = <<>>
    /\ all_results = <<>>
    /\ df = <<>>

\* an argument that is None (a year is never 0, and "or" treats both alike)
NoYear == 0

\* the variables of detect_all_available_seasons while another operation runs
DetectIdle ==
    /\ start_year = NoYear
    /\ end_year = NoYear
    /\ current_year = NoYear
    /\ year = NoYear
    /\ probe_events = <<>>
    /\ available_seasons = <<>>

\* the variables of the event-page operations while get_events runs
PageIdle ==
    /\ soup = NoPage
    /\ results = <<>>
    /\ scan_results = <<>>
    /\ athlete_name = <<>>
    /\ athlete_url = <<>>
    /\ discipline_label = <<>>

----------------------------------------------------------------------------
(* Scraping one event page: parse_event_results, then the athlete scan of  *)
(* the same page.                                                          *)

EventName == <<"E1">>

\* parse_event_results(event_info) on the fetched page
ParseEvent ==
    /\ pc = "start"
    /\ results' = ParseEventResults(soup, EventName)
    /\ pc' = "parsed"
    /\ UNCHANGED <<soup, scan_results, athlete_name, athlete_url, discipline_label>>
    /\ UNCHANGED <<listVars, queryVars>>
    /\ UNCHANGED detectVars

\* _get_athlete_results_from_event(event_url, event_name, athlete_name, athlete_url)
ScanEvent ==
    /\ pc = "parsed"
    /\ scan_results' = GetAthleteResultsFromEvent(soup, EventName, athlete_name, athlete_url)
    /\ pc' = "done"
    /\ UNCHANGED <<soup, results, athlete_name, athlete_url, discipline_label>>
    /\ UNCHANGED <<listVars, queryVars>>
    /\ UNCHANGED detectVars

NextEvent == ParseEvent \/ ScanEvent

ProfileOne == <<"/Athlete/", "1">>

----------------------------------------------------------------------------
(* Wood descriptions: every text up to MaxWoodLen characters between the   *)
(* stars of a marked paragraph, and paragraphs without marker or stars.    *)

WoodTexts == SeqsUpTo(WoodChars, MaxWoodLen)

WoodParas ==
    {[marker |-> TRUE, stars |-> TRUE, inner |-> w] : w \in WoodTexts}
    \cup {[marker |-> TRUE,  stars |-> FALSE, inner |-> <<"P", "(", "3", "c", "m">>],
          [marker |-> FALSE, stars |-> TRUE,  inner |-> <<"P", "(", "3", "c", "m">>]}

WoodRows ==
    <<Row(5, <<"n">>, FALSE, <<>>, <<"t">>, <<>>),
      Row(5, <<"a">>, TRUE, ProfileOne, <<"1">>, <<>>),
      Row(6, <<"A", "b">>, FALSE, <<>>, <<"2">>, <<"W">>)>>

InitWood ==
    /\ pc = "start"
    /\ \E p \in WoodParas :
          soup = Page(<<Anchor(AnchorId(1, UnderhandChop)), Para(p), Table(WoodRows)>>)
    /\ results = <<>>
    /\ scan_results = <<>>
    /\ athlete_name = <<"a">>
    /\ athlete_url = BASE_URL \o ProfileOne
    /\ discipline_label = <<>>
    /\ ListIdle
    /\ QueryIdle
    /\ DetectIdle

SpecWood == InitWood /\ [][NextEvent]_vars

\* the wood description of the section of a SpecWood page
SectionWood == WoodInfo(soup.body, 1)

\* the shape <Species> (<N> cm ...): a non-empty alphabetic prefix, optional
\* whitespace, "(", a non-empty digit run, optional whitespace, "cm"
ShapeParen(w)  == RunEnd(w, RunEnd(w, 1, Letters), {Space})
ShapeDigits(w) == ShapeParen(w) + 1
ShapeCm(w)     == RunEnd(w, RunEnd(w, ShapeDigits(w), Digits), {Space})
HasShape(w) ==
    /\ RunEnd(w, 1, Letters) > 1
    /\ ShapeParen(w) <= Len(w) /\ w[ShapeParen(w)] = Paren
    /\ RunEnd(w, ShapeDigits(w), Digits) > ShapeDigits(w)
    /\ ShapeCm(w) + 1 <= Len(w) /\ w[ShapeCm(w)] = "c" /\ w[ShapeCm(w) + 1] = "m"
ShapeSpecies(w) == SubSeq(w, 1, RunEnd(w, 1, Letters) - 1)
ShapeN(w)       == SubSeq(w, ShapeDigits(w), RunEnd(w, ShapeDigits(w), Digits) - 1)

\* some digit is followed, after optional whitespace, by "cm"
HasDigitsCm(w) ==
    \E i \in 1..Len(w) : \E k \in (i + 1)..(Len(w) - 1) :
        /\ w[i] \in Digits
        /\ \A j \in (i + 1)..(k - 1) : w[j] = Space
        /\ w[k] = "c" /\ w[k + 1] = "m"

\* some letter is followed, after optional whitespace, by "("
HasLettersParen(w) ==
    \E i \in 1..Len(w) : \E k \in (i + 1)..Len(w) :
        /\ w[i] \in Letters
        /\ \A j \in (i + 1)..(k - 1) : w[j] = Space
        /\ w[k] = Paren

AllRecords == {results[i] : i \in 1..Len(results)}
                 \cup {scan_results[i] : i \in 1..Len(scan_results)}

\* C3 as stated: a wood description of the shape <Species> (<N> cm ...) gives
\* every record of the section size N * 10 and species <Species>, and a wood
\* description not of that shape gives every record an empty size and an
\* empty species.
C3_Original ==
    pc = "done" =>
        \A r \in AllRecords :
            IF HasShape(SectionWood)
            THEN /\ r.Size # <<>> /\ StrToInt(r.Size) = StrToInt(ShapeN(SectionWood)) * 10
                 /\ r.Species = ShapeSpecies(SectionWood)
            ELSE r.Size = <<>> /\ r.Species = <<>>

\* C3 amended: a wood description of the shape <Species> (<N> cm ...) gives
\* every record of the section size N * 10 and species <Species>; for any
\* other wood description the two fields are derived independently: the size
\* is empty exactly when no digit is followed (after optional whitespace) by
\* "cm", and the species is empty exactly when no letter is followed (after
\* optional whitespace) by "(".
C3_WoodFields ==
    pc = "done" =>
        /\ Len(results) = 2 /\ Len(scan_results) = 2
        /\ \A r \in AllRecords :
            /\ HasShape(SectionWood) =>
                  /\ r.Size # <<>>
                  /\ StrToInt(r.Size) = StrToInt(ShapeN(SectionWood)) * 10
                  /\ r.Species = ShapeSpecies(SectionWood)
            /\ (r.Size = <<>>) <=> ~HasDigitsCm(SectionWood)
            /\ (r.Species = <<>>) <=> ~HasLettersParen(SectionWood)

\* the wood text "P(3cm" gives both parsers size "30" and species "P"
C3_Witness ==
    /\ pc = "done"
    /\ SectionWood = <<"P", "(", "3", "c", "m">>
    /\ HasShape(SectionWood)
    /\ results[1].Size = <<"3", "0">> /\ results[1].Species = <<"P">>
    /\ scan_results[2].Size = <<"3", "0">> /\ scan_results[2].Species = <<"P">>

----------------------------------------------------------------------------
(* Event pages made of round anchors and results tables in any order.      *)

Disciplines == {UnderhandChop, StandingBlockChop}

TableOne == Table(<<Row(5, <<"n">>, FALSE, <<>>, <<"t">>, <<>>),
                    Row(5, <<"a">>, TRUE, ProfileOne, <<"1">>, <<>>)>>)
TableTwo == Table(<<Row(5, <<"n">>, FALSE, <<>>, <<"t">>, <<>>),
                    Row(6, <<"A", "b">>, FALSE, <<>>, <<"2">>, <<"W">>)>>)

DocElems == {Anchor(AnchorId(r, d)) : r \in 1..3, d \in Disciplines}
               \cup {TableOne, TableTwo}

InitDoc ==
    /\ pc = "start"
    /\ \E body \in SeqsUpTo(DocElems, MaxElems) : soup = Page(body)
    /\ results = <<>>
    /\ scan_results = <<>>
    /\ athlete_name = <<"a">>
    /\ athlete_url = BASE_URL \o ProfileOne
    /\ discipline_label = <<>>
    /\ ListIdle
    /\ QueryIdle
    /\ DetectIdle

SpecDoc == InitDoc /\ [][NextEvent]_vars

\* the rounds for which the page has an anchor of discipline d
RoundsPresent(d) ==
    {r \in 1..3 : \E i \in 1..Len(soup.body) : soup.body[i] = Anchor(AnchorId(r, d))}

\* the position of the anchor the claim names: the first element carrying the
\* identifier of the lowest round present
ClaimedAnchor(d) ==
    LET r == CHOOSE x \in RoundsPresent(d) : \A y \in RoundsPresent(d) : x <= y
    IN  CHOOSE i \in 1..Len(soup.body) :
            /\ soup.body[i] = Anchor(AnchorId(r, d))
            /\ \A j \in 1..(i - 1) : soup.body[j] # Anchor(AnchorId(r, d))

\* the rows of the results table of the claimed section (none without a table)
ClaimedRows(d) ==
    LET after == {j \in (ClaimedAnchor(d) + 1)..Len(soup.body) : soup.body[j].tag = "table"}
    IN  IF after = {} THEN <<>>
        ELSE SkipHeader(soup.body[CHOOSE j \in after : \A k \in after : j <= k].rows)

ClaimedParse(d) ==
    IF RoundsPresent(d) = {} THEN <<>>
    ELSE ParseRows(ClaimedRows(d), d, EventName, <<>>)

ClaimedScan(d) ==
    IF RoundsPresent(d) = {} THEN <<>>
    ELSE ScanRows(ClaimedRows(d), d, EventName, <<>>, athlete_name, athlete_url)

\* C2: in the event scrape and in the athlete scan, the records of each
\* discipline are those of the section anchored at the first existing
\* identifier in the order Round1, Round2, Round3; a discipline without any of
\* the three anchors contributes no record and leaves the other's untouched.
C2_FirstAnchorUsed ==
    /\ pc \in {"parsed", "done"} =>
          results = ClaimedParse(UnderhandChop) \o ClaimedParse(StandingBlockChop)
    /\ pc = "done" =>
          scan_results = ClaimedScan(UnderhandChop) \o ClaimedScan(StandingBlockChop)

\* only a Round2StandingBlockChop anchor, and its table is found and parsed
C2_Witness ==
    /\ pc = "done"
    /\ RoundsPresent(StandingBlockChop) = {2}
    /\ RoundsPresent(UnderhandChop) = {}
    /\ Len(results) = 1 /\ results[1].Discipline = "SB"
    /\ Len(scan_results) = 1 /\ scan_results[1].Discipline = "SB"

----------------------------------------------------------------------------
(* Results tables: every table of up to MaxRows rows, each row with 3 to 6 *)
(* cells and one of four name cells.                                       *)

CellCounts == {3, 4, 5, 6}

ProfileTwoAbsolute == BASE_URL \o <<"/Athlete/", "2">>

\* name cells: plain text, text padded with whitespace, a link with a
\* relative target, a link whose target already carries the origin
NameCells ==
    {[name |-> <<"a">>,      link |-> FALSE, href |-> <<>>],
     [name |-> <<" ", "B">>, link |-> FALSE, href |-> <<>>],
     [name |-> <<"A", "b">>, link |-> TRUE,  href |-> ProfileOne],
     [name |-> <<"b">>,      link |-> TRUE,  href |-> ProfileTwoAbsolute]}

TableRows ==
    {Row(n, c.name, c.link, c.href, <<"9">>, <<"W">>) : n \in CellCounts, c \in NameCells}

QueryNames == {<<"a">>, <<"B">>}

InitTable ==
    /\ pc = "start"
    /\ \E rows \in SeqsUpTo(TableRows, MaxRows) :
          soup = Page(<<Anchor(AnchorId(2, UnderhandChop)), Table(rows)>>)
    /\ results = <<>>
    /\ scan_results = <<>>
    /\ athlete_name \in QueryNames
    /\ athlete_url = BASE_URL \o ProfileOne
    /\ discipline_label = <<>>
    /\ ListIdle
    /\ QueryIdle
    /\ DetectIdle

SpecTable == InitTable /\ [][NextEvent]_vars

\* the rows of the one table of a SpecTable page
TheRows == soup.body[2].rows

\* the positions of the later (non-header) rows satisfying P, in row order
PositionsFrom(rows, i, P(_)) == Ascending({k \in i..Len(rows) : P(rows[k])})

AtLeastFourCells(row) == row.n >= 4
FourCellsAndNamed(row) ==
    row.n >= 4 /\ Contains(Lower(Strip(row.name)), Lower(athlete_name))

\* record k of recs comes from row at[k]: same name, and the time of the row
FromRows(recs, at) ==
    /\ Len(recs) = Len(at)
    /\ \A k \in 1..Len(at) : recs[k].Name = Strip(TheRows[at[k]].name)

\* C4 as stated: wherever a results table is parsed (event scrape, athlete
\* scan), the header row yields no record and each later row yields exactly
\* one record if it has at least 4 cells (in the athlete scan: and names the
\* athlete) and none otherwise, in row order.
C4_Original ==
    /\ pc \in {"parsed", "done"} =>
          FromRows(results, PositionsFrom(TheRows, 2, AtLeastFourCells))
    /\ pc = "done" =>
          FromRows(scan_results, PositionsFrom(TheRows, 2, FourCellsAndNamed))

HasBase(url) == Len(url) >= 1 /\ url[1] = "BASE"

\* C6 as stated: a record made from a row whose name cell holds a link has
\* profile URL = origin + raw target, and the origin is not doubled at its
\* front; a record made from a row without link has the cell text as name and
\* an empty profile URL.
C6_Original ==
    pc \in {"parsed", "done"} =>
        LET at == PositionsFrom(TheRows, 2, AtLeastFourCells)
        IN  \A k \in 1..Len(at) :
                IF TheRows[at[k]].link
                THEN /\ results[k].ProfileURL = BASE_URL \o TheRows[at[k]].href
                     /\ ~(HasBase(results[k].ProfileURL) /\ HasBase(Tail(results[k].ProfileURL)))
                ELSE /\ results[k].Name = Strip(TheRows[at[k]].name)
                     /\ results[k].ProfileURL = <<>>

\* C10 as stated, for rows the row parser accepts (at least 4 cells): the
\* athlete scan emits one record for every later row whose name contains the
\* resolved display name case-insensitively, and none for any other row.
C10_Original ==
    pc = "done" =>
        FromRows(scan_results, PositionsFrom(TheRows, 2, FourCellsAndNamed))

----------------------------------------------------------------------------
(* _parse_discipline_section called with any label of up to MaxLabelLen    *)
(* words.                                                                  *)

Words == {"Standing", "Block", "Chop", "Underhand", "Hot"}

Labels == SeqsUpTo(Words, MaxLabelLen)

\* _parse_discipline_section(section_anchor, discipline_name, ...)
ParseSection ==
    /\ pc = "start"
    /\ results' = ParseDisciplineSection(soup.body, 1, discipline_label, EventName)
    /\ pc' = "parsed"
    /\ UNCHANGED <<soup, scan_results, athlete_name, athlete_url, discipline_label>>
    /\ UNCHANGED <<listVars, queryVars>>
    /\ UNCHANGED detectVars

InitAbbrev ==
    /\ pc = "start"
    /\ soup = Page(<<Anchor(<<"Section">>), TableOne>>)
    /\ results = <<>>
    /\ scan_results = <<>>
    /\ athlete_name = <<"a">>
    /\ athlete_url = BASE_URL \o ProfileOne
    /\ discipline_label \in Labels
    /\ ListIdle
    /\ QueryIdle
    /\ DetectIdle

SpecAbbrev == InitAbbrev /\ [][ParseSection]_vars

----------------------------------------------------------------------------
(* get_events(season, seasons_list, limit) as main calls it                *)

\* lines 59-76 and 704-708: entry, choice of the listings to fetch
StartGetEvents ==
    /\ pc = "start"
    /\ pending' = SeasonsToList(season, seasons_list)
    /\ all_events' = <<>>
    /\ pc' = "listing"
    /\ UNCHANGED <<site, fetch_log, season, seasons_list, limit, pageVars, queryVars>>
    /\ UNCHANGED detectVars

\* lines 63-66 (71, 76): one _get_events_for_season(s, limit=None)
ListSeason ==
    /\ pc = "listing"
    /\ pending # <<>>
    /\ LET url == ListingUrl(Head(pending))
       IN  /\ fetch_log' = Append(fetch_log, url)
           /\ all_events' = all_events \o GetEventsForSeason(site[url], NoLimit)
    /\ pending' = Tail(pending)
    /\ UNCHANGED <<pc, site, season, seasons_list, limit, pageVars, queryVars>>
    /\ UNCHANGED detectVars

\* lines 78-83
FinishGetEvents ==
    /\ pc = "listing"
    /\ pending = <<>>
    /\ all_events' = ApplyLimit(all_events, limit)
    /\ pc' = "done"
    /\ UNCHANGED <<site, fetch_log, season, seasons_list, limit, pending, pageVars, queryVars>>
    /\ UNCHANGED detectVars

NextList == StartGetEvents \/ ListSeason \/ FinishGetEvents

Seasons == {"2024", "2023"}

EventLink(d) == Link(<<"/Event/", d>>, <<"E", d>>)

\* a few listing pages: two events, one event, no event, and no page at all
ListingPages ==
    {Page(<<ListRow(<<EventLink("1")>>, <<<<"d">>, <<"n">>>>),
            ListRow(<<EventLink("2")>>, <<<<"d">>, <<"n">>>>)>>),
     Page(<<ListRow(<<>>, <<<<"h">>>>),
            ListRow(<<EventLink("3")>>, <<<<"d">>, <<"n">>>>)>>),
     Page(<<>>),
     NoPage}

ListingUrls == {ListingUrl(s) : s \in Seasons \cup {NoSeason}}

InitEvents ==
    /\ pc = "start"
    /\ PageIdle
    /\ QueryIdle
    /\ DetectIdle
    /\ site \in [ListingUrls -> ListingPages]
    /\ fetch_log = <<>>
    /\ \/ season = NoSeason /\ seasons_list \in SeqsUpTo(Seasons, MaxSeasons)
       \/ season \in Seasons /\ seasons_list = <<>>
    /\ limit \in {NoLimit} \cup {Limit(n) : n \in 0..MaxLimit}
    /\ pending = <<>>
    /\ all_events = <<>>

SpecEvents == InitEvents /\ [][NextList]_vars

\* the listing of one season, as _get_events_for_season returns it
ListingOf(s) == GetEventsForSeason(site[ListingUrl(s)], NoLimit)

RECURSIVE Concatenated(_)
Concatenated(ss) == IF ss = <<>> THEN <<>> ELSE ListingOf(Head(ss)) \o Concatenated(Tail(ss))

\* C9 as stated: for a sequence of seasons of any length there is exactly one
\* listing fetch per season, in season order, the result is the listings
\* concatenated in that order, and with a limit N present it is exactly the
\* first N entries of the concatenation.
C9_Original ==
    (pc = "done" /\ season = NoSeason) =>
        /\ fetch_log = [i \in 1..Len(seasons_list) |-> ListingUrl(seasons_list[i])]
        /\ all_events = IF limit.present
                        THEN Take(Concatenated(seasons_list), limit.n)
                        ELSE Concatenated(seasons_list)

----------------------------------------------------------------------------
(* One listing page of up to MaxListRows rows, listed by                   *)
(* get_events(season="2024", limit).                                       *)

AthleteLink == Link(<<"/Athlete/", "1">>, <<"a">>)

\* rows: without link, with an event link, with an event link and one cell,
\* with an athlete link only, with an athlete link before the event link,
\* with a link to /Event/ that has no number, with an absolute event link
ListRows ==
    {ListRow(<<>>, <<<<"d">>, <<"n">>>>),
     ListRow(<<EventLink("1")>>, <<<<"d">>, <<"n">>>>),
     ListRow(<<EventLink("2")>>, <<<<"d">>>>),
     ListRow(<<AthleteLink>>, <<<<"d">>, <<"n">>>>),
     ListRow(<<AthleteLink, EventLink("3")>>, <<<<"d">>, <<"n">>>>),
     ListRow(<<Link(<<"/Event/", "new">>, <<"x">>)>>, <<<<"d">>, <<"n">>>>),
     ListRow(<<Link(<<"BASE", "/Event/", "1">>, <<"E", "1">>)>>, <<<<"d">>, <<"n">>>>)}

InitListing ==
    /\ pc = "start"
    /\ PageIdle
    /\ QueryIdle
    /\ DetectIdle
    /\ \E rows \in SeqsUpTo(ListRows, MaxListRows) :
          site \in [{ListingUrl("2024")} -> {Page(rows), NoPage}]
    /\ fetch_log = <<>>
    /\ season = "2024"
    /\ seasons_list = <<>>
    /\ limit \in {NoLimit, Limit(2)}
    /\ pending = <<>>
    /\ all_events = <<>>

SpecListing == InitListing /\ [][NextList]_vars

ListedPage == site[ListingUrl("2024")]

\* the targets of the links of a row that match the event-reference pattern
EventTargets(row) ==
    {row.links[i].href : i \in {j \in 1..Len(row.links) :
        \E k \in 1..(Len(row.links[j].href) - 1) :
            /\ row.links[j].href[k] = "/Event/"
            /\ row.links[j].href[k + 1] \in {"1", "2", "3"}}}

\* the positions of the rows that contain an event link, in row order
EventRowsAt == Ascending({i \in 1..Len(ListedPage.body) : EventTargets(ListedPage.body[i]) # {}})

\* C8: listing one page yields exactly one entry per row that contains a
\* link matching the event-reference pattern, in row order, and none for any
\* other row; each entry's url is the origin followed by the link target.
C8_OneEntryPerEventRow ==
    (pc = "listing" /\ pending = <<>>) =>
        /\ Len(all_events) = Len(EventRowsAt)
        /\ \A k \in 1..Len(EventRowsAt) :
              \E target \in EventTargets(ListedPage.body[EventRowsAt[k]]) :
                  all_events[k].url = BASE_URL \o target

\* a page of 3 rows of which 2 hold event links gives exactly 2 entries
C8_Witness ==
    /\ pc = "listing" /\ pending = <<>>
    /\ ListedPage.ok /\ Len(ListedPage.body) = 3
    /\ EventRowsAt = <<1, 3>>
    /\ Len(all_events) = 2
    /\ all_events[1].url = <<"BASE", "/Event/", "1">>
    /\ all_events[2].url = <<"BASE", "/Event/", "3">>

----------------------------------------------------------------------------
(* scrape_athlete_profile(athlete_name_or_url, seasons_to_search)          *)

\* get_page(url) while the URLs in down fail (transport error, bad status):
\* one request, None on failure
GetPage(url, down) ==
    IF url \in down \/ url \notin DOMAIN site THEN NoPage ELSE site[url]

\* line 501, 504 and 507
SearchSeasonsList == <<"2025", "2024", "2023">>
SearchLimit == 10
SearchEventsPerSeason == 3

\* href=re.compile(r'/Athlete/\d+')
IsAthleteRef(href) ==
    \E i \in 1..(Len(href) - 1) : href[i] = "/Athlete/" /\ href[i + 1] \in DigitToks

\* the athlete-profile links of the rows of one table, in row order
RECURSIVE RowLinks(_)
RowLinks(rows) ==
    IF rows = <<>> THEN <<>>
    ELSE (IF Head(rows).n >= 2 /\ Head(rows).link /\ IsAthleteRef(Head(rows).href)
          THEN <<Link(Head(rows).href, Head(rows).name)>>
          ELSE <<>>)
         \o RowLinks(Tail(rows))

\* line 513: soup.find_all('a', href=...), in document order
RECURSIVE AthleteLinks(_)
AthleteLinks(page) ==
    IF page = <<>> THEN <<>>
    ELSE (IF Head(page).tag = "table" THEN RowLinks(Head(page).rows) ELSE <<>>)
         \o AthleteLinks(Tail(page))

\* FirstMatchingLink taking the first link, whatever its text
FirstMatchingLink_AnyText(links, name) ==
    IF links = <<>> THEN <<>> ELSE BASE_URL \o Head(links).href

\* FirstMatchingLink going on to the last link whose text contains the name
RECURSIVE FirstMatchingLink_Last(_, _)
FirstMatchingLink_Last(links, name) ==
    IF links = <<>> THEN <<>>
    ELSE LET later == FirstMatchingLink_Last(Tail(links), name)
         IN  IF later # <<>> THEN later
             ELSE IF Contains(Lower(Head(links).text), Lower(name))
                  THEN BASE_URL \o Head(links).href
                  ELSE <<>>

\* lines 514-516: the first link whose text contains the name, "" if none
RECURSIVE FirstMatchingLink(_, _)
FirstMatchingLink(links, name) ==
    IF links = <<>> THEN <<>>
    ELSE IF Contains(Lower(Head(links).text), Lower(name))
         THEN BASE_URL \o Head(links).href
         ELSE FirstMatchingLink(Tail(links), name)

NotFound(log) == [found |-> FALSE, url |-> <<>>, log |-> log]

\* lines 507-516: the events of one season
RECURSIVE SearchEvents(_, _, _, _)
SearchEvents(events, name, down, log) ==
    IF events = <<>> THEN NotFound(log)
    ELSE LET fetched == GetPage(Head(events).url, down)
             requested == Append(log, Head(events).url)
             hit == IF fetched.ok
                    THEN FirstMatchingLink(AthleteLinks(fetched.body), name)
                    ELSE <<>>
         IN  IF hit # <<>> THEN [found |-> TRUE, url |-> hit, log |-> requested]
             ELSE SearchEvents(Tail(events), name, down, requested)

\* lines 503-518: the seasons
RECURSIVE SearchSeasons(_, _, _, _)
SearchSeasons(seasons, name, down, log) ==
    IF seasons = <<>> THEN NotFound(log)
    ELSE LET url == ListingUrl(Head(seasons))
             events == GetEventsForSeason(GetPage(url, down), Limit(SearchLimit))
             r == SearchEvents(Take(events, SearchEventsPerSeason), name, down,
                               Append(log, url))
         IN  IF r.found THEN r ELSE SearchSeasons(Tail(seasons), name, down, r.log)

\* lines 498-518
FindAthleteUrl(name, down) == SearchSeasons(SearchSeasonsList, name, down, <<>>)

\* athlete_name_or_url.startswith('http'): the origin token begins with http
StartsWithHttp(x) == x # <<>> /\ Head(x) = "BASE"

Unknown == <<"Unknown">>

\* lines 332-333 / 353-354: h2.text.strip() if h2 else <fallback>
DisplayName(page, fallback) ==
    LET h2 == FindNext(page, 0, "h2")
    IN  IF h2 # NoElem THEN Strip(page[h2].text) ELSE fallback

\* the early return: no display name, athlete_url as far as it was set
Unresolved(url, log) == [ok |-> FALSE, name |-> <<>>, url |-> url, log |-> log]

\* lines 324-354: the identity of the athlete, or the early return
Identify(asked, down) ==
    IF StartsWithHttp(asked)
    THEN LET fetched == GetPage(asked, down)
         IN  IF ~fetched.ok THEN Unresolved(asked, <<asked>>)
             ELSE [ok |-> TRUE, name |-> DisplayName(fetched.body, Unknown),
                   url |-> asked, log |-> <<asked>>]
    ELSE LET r == FindAthleteUrl(asked, down)
             fetched == GetPage(r.url, down)
         IN  IF ~r.found THEN Unresolved(<<>>, r.log)
             ELSE IF ~fetched.ok THEN Unresolved(r.url, Append(r.log, r.url))
             ELSE [ok |-> TRUE, name |-> DisplayName(fetched.body, asked),
                   url |-> r.url, log |-> Append(r.log, r.url)]

\* lines 381-391: the events of one season
RECURSIVE ScanEvents(_, _, _, _)
ScanEvents(events, name, url, down) ==
    IF events = <<>> THEN [results |-> <<>>, log |-> <<>>]
    ELSE LET event_results ==
                 GetAthleteResultsFromEvent(GetPage(Head(events).url, down),
                                            Head(events).name, name, url)
             rest == ScanEvents(Tail(events), name, url, down)
         IN  [results |-> event_results \o rest.results,
              log     |-> <<Head(events).url>> \o rest.log]

SameTriple(r1, r2) ==
    /\ r1.EventName = r2.EventName
    /\ r1.Discipline = r2.Discipline
    /\ r1.Time = r2.Time

\* DropDuplicates comparing event name and discipline only
DropDuplicates_NoTime(recs) ==
    LET kept == {i \in 1..Len(recs) : \A j \in 1..(i - 1) :
                    ~(recs[j].EventName = recs[i].EventName
                      /\ recs[j].Discipline = recs[i].Discipline)}
    IN  [k \in 1..Cardinality(kept) |-> recs[Ascending(kept)[k]]]

\* lines 397-401: drop_duplicates(subset=[Event Name, Discipline, Time], keep='first')
DropDuplicates(recs) ==
    LET kept == {i \in 1..Len(recs) : \A j \in 1..(i - 1) : ~SameTriple(recs[j], recs[i])}
    IN  [k \in 1..Cardinality(kept) |-> recs[Ascending(kept)[k]]]

\* the sets of URLs, among those a step can request, that fail during it
Outages(urls) == {down \in SUBSET urls : Cardinality(down) <= MaxDown}

\* the URLs the scan of season s can request: its listing and the events on it
ScanUrls(s) ==
    LET listed == GetEventsForSeason(GetPage(ListingUrl(s), {}), NoLimit)
    IN  {ListingUrl(s)} \cup {listed[i].url : i \in 1..Len(listed)}

\* lines 324-370: identification, then either the early return or the scan
StartQuery ==
    /\ pc = "start"
    /\ \E down \in Outages(DOMAIN site) :
          LET who == Identify(athlete_name_or_url, down)
          IN  /\ fetch_log' = who.log
              /\ athlete_name' = who.name
              /\ athlete_url' = who.url
              /\ pc' = IF who.ok THEN "scan" ELSE "done"
              /\ pending' = IF who.ok THEN seasons_to_search ELSE <<>>
    /\ all_results' = <<>>
    /\ df' = <<>>
    /\ UNCHANGED <<soup, results, scan_results, discipline_label, site, season,
                   seasons_list, limit, all_events, athlete_name_or_url, seasons_to_search>>
    /\ UNCHANGED detectVars

\* lines 373-395: one season of the scan
ScanSeason ==
    /\ pc = "scan"
    /\ pending # <<>>
    /\ \E down \in Outages(ScanUrls(Head(pending))) :
          LET url == ListingUrl(Head(pending))
              events == GetEventsForSeason(GetPage(url, down), NoLimit)
              scanned == ScanEvents(events, athlete_name, athlete_url, down)
          IN  /\ fetch_log' = (fetch_log \o <<url>>) \o scanned.log
              /\ all_results' = all_results \o scanned.results
    /\ pending' = Tail(pending)
    /\ UNCHANGED <<pc, pageVars, site, season, seasons_list, limit, all_events,
                   athlete_name_or_url, seasons_to_search, df>>
    /\ UNCHANGED detectVars

\* lines 397-411: deduplication and return
FinishQuery ==
    /\ pc = "scan"
    /\ pending = <<>>
    /\ df' = DropDuplicates(all_results)
    /\ pc' = "done"
    /\ UNCHANGED <<pageVars, listVars, athlete_name_or_url, seasons_to_search, all_results>>
    /\ UNCHANGED detectVars

Next == StartQuery \/ ScanSeason \/ FinishQuery

----------------------------------------------------------------------------
(* The site an athlete query runs against: three season listings, two      *)
(* event pages and two athlete profiles.                                   *)

ProfileTwo == <<"/Athlete/", "2">>

EventUrl(d)  == BASE_URL \o <<"/Event/", d>>
ListingOf2(ds) == Page([i \in 1..Len(ds) |-> ListRow(<<EventLink(ds[i])>>, <<<<"d">>, <<"n">>>>)])

HeaderRow == Row(5, <<"n">>, FALSE, <<>>, <<"t">>, <<>>)

\* one discipline; the first and the third row share their time
EventPageRepeat ==
    Page(<<Anchor(AnchorId(1, UnderhandChop)),
           Table(<<HeaderRow,
                   Row(5, <<"a">>, TRUE, ProfileOne, <<"1">>, <<>>),
                   Row(5, <<"A", "b">>, FALSE, <<>>, <<"2">>, <<>>),
                   Row(6, <<"a", " ", "b">>, FALSE, <<>>, <<"1">>, <<"W">>)>>)>>)

\* both disciplines, the first under its Round2 anchor
EventPageBoth ==
    Page(<<Anchor(AnchorId(2, UnderhandChop)),
           Table(<<HeaderRow, Row(5, <<"a">>, FALSE, <<>>, <<"1">>, <<>>)>>),
           Anchor(AnchorId(1, StandingBlockChop)),
           Table(<<HeaderRow,
                   Row(5, <<"b">>, TRUE, ProfileTwo, <<"1">>, <<>>),
                   Row(4, <<"a">>, TRUE, ProfileOne, <<>>, <<>>),
                   Row(5, <<"a">>, TRUE, ProfileOne, <<"1">>, <<>>)>>)>>)

EventPageStanding ==
    Page(<<Anchor(AnchorId(1, StandingBlockChop)),
           Table(<<HeaderRow, Row(6, <<"A">>, TRUE, ProfileOne, <<"1">>, <<"W">>)>>)>>)

EventPageEmpty == Page(<<>>)

\* a row naming "a" inside another name, linked to the second profile
EventPageOther ==
    Page(<<Anchor(AnchorId(3, UnderhandChop)),
           Table(<<HeaderRow, Row(5, <<"c", "a">>, TRUE, ProfileTwo, <<"4">>, <<>>)>>)>>)

SiteOf(l25, l24, e1, e2, p1) ==
    (ListingUrl("2025") :> ListingOf2(l25)) @@ (ListingUrl("2024") :> ListingOf2(l24))
    @@ (ListingUrl("2023") :> ListingOf2(<<"2">>))
    @@ (EventUrl("1") :> e1) @@ (EventUrl("2") :> e2)
    @@ (BASE_URL \o ProfileOne :> p1)
    @@ (BASE_URL \o ProfileTwo :> Page(<<Heading(<<" ", "b">>)>>))

Sites ==
    {SiteOf(l25, l24, e1, e2, p1) :
        l25 \in {<<"1">>, <<"1", "2">>, <<>>},
        l24 \in {<<"1">>, <<"2">>},
        e1 \in {EventPageRepeat, EventPageBoth},
        e2 \in {EventPageStanding, EventPageEmpty, EventPageOther},
        p1 \in {Page(<<Heading(<<"a">>)>>), Page(<<>>)}}

\* a name on the site, a name that is not, a name only in the second
\* profile's links, and a profile URL
Queries == {<<"a">>, <<"z">>, <<"B">>, BASE_URL \o ProfileOne}

Init ==
    /\ pc = "start"
    /\ soup = NoPage
    /\ results = <<>>
    /\ scan_results = <<>>
    /\ athlete_name = <<>>
    /\ athlete_url = <<>>
    /\ discipline_label = <<>>
    /\ site \in Sites
    /\ fetch_log = <<>>
    /\ season = NoSeason
    /\ seasons_list = <<>>
    /\ limit = NoLimit
    /\ pending = <<>>
    /\ all_events = <<>>
    /\ athlete_name_or_url \in Queries
    /\ seasons_to_search \in SeqsUpTo({"2025", "2024"}, MaxScanSeasons)
    /\ all_results = <<>>
    /\ df = <<>>
    /\ DetectIdle

Spec == Init /\ [][Next]_vars

----------------------------------------------------------------------------
(* Claims about the athlete query *)

\* the requests made after the profile page was requested
RECURSIVE AfterProfile(_)
AfterProfile(log) ==
    IF log = <<>> THEN <<>>
    ELSE IF Head(log) = athlete_url THEN Tail(log) ELSE AfterProfile(Tail(log))

IsListingUrl(url) == Len(url) >= 2 /\ url[2] = "/Results"

RECURSIVE ListingsIn(_)
ListingsIn(log) ==
    IF log = <<>> THEN <<>>
    ELSE (IF IsListingUrl(Head(log)) THEN <<Head(log)>> ELSE <<>>) \o ListingsIn(Tail(log))

\* C1 as stated: whatever fetch fails, its caller counts the page as empty
\* and goes on with the remaining pages: once an athlete's profile URL is
\* known, the query lists every season it was asked to scan.
C1_Original ==
    (pc = "done" /\ athlete_url # <<>>) =>
        ListingsIn(AfterProfile(fetch_log))
            = [i \in 1..Len(seasons_to_search) |-> ListingUrl(seasons_to_search[i])]

\* the position in all_results of the first record with the triple of r
FirstWithTriple(r) ==
    CHOOSE i \in 1..Len(all_results) :
        /\ SameTriple(all_results[i], r)
        /\ \A j \in 1..(i - 1) : ~SameTriple(all_results[j], r)

IsEventUrl(url) == Len(url) >= 2 /\ url[2] = "/Event/"

\* the row holds an athlete-profile link whose text contains the name,
\* whatever the case of the letters
RowLinkNames(row, name) ==
    /\ row.n >= 2 /\ row.link
    /\ \E j \in 1..(Len(row.href) - 1) :
          row.href[j] = "/Athlete/" /\ row.href[j + 1] \in {"1", "2", "3"}
    /\ \E a \in 1..Len(row.name) :
          /\ a + Len(name) - 1 <= Len(row.name)
          /\ \A b \in 1..Len(name) :
                LowerChar(row.name[a + b - 1]) = LowerChar(name[b])

\* some athlete-profile link of an event page has a text containing the name
NameOnPage(page, name) ==
    \E i \in 1..Len(page) :
        /\ page[i].tag = "table"
        /\ \E k \in 1..Len(page[i].rows) : RowLinkNames(page[i].rows[k], name)

\* the name is in no athlete-profile link of any event page of the site
NoMatchOnSite ==
    \A u \in DOMAIN site :
        (IsEventUrl(u) /\ site[u].ok) => ~NameOnPage(site[u].body, athlete_name_or_url)

SearchListings == <<ListingUrl("2025"), ListingUrl("2024"), ListingUrl("2023")>>

\* C11: a name query whose name is in no athlete-profile link of the pages
\* the search reads finds no profile URL, and a name query that finds no
\* profile URL returns an empty result without an error: it ends with no
\* record, and the only requests it made are those of the search (the three
\* search listings once each, and event pages), none of the scan phase.
C11_UnresolvedIsEmpty ==
    (pc = "done" /\ ~StartsWithHttp(athlete_name_or_url)) =>
        /\ NoMatchOnSite => athlete_url = <<>>
        /\ athlete_url = <<>> =>
              /\ df = <<>> /\ all_results = <<>> /\ pending = <<>>
              /\ ListingsIn(fetch_log) = SearchListings
              /\ \A i \in 1..Len(fetch_log) :
                    IsListingUrl(fetch_log[i]) \/ IsEventUrl(fetch_log[i])

\* the name "B" is in rows of the first event but in no profile link: the
\* query asked to scan a season ends empty after the search alone
C11_Witness ==
    /\ pc = "done"
    /\ athlete_name_or_url = <<"B">>
    /\ site[EventUrl("1")] = EventPageRepeat
    /\ NoMatchOnSite
    /\ seasons_to_search # <<>>
    /\ athlete_url = <<>> /\ df = <<>>
    /\ Len(fetch_log) >= 5
    /\ ListingsIn(fetch_log) = SearchListings

----------------------------------------------------------------------------
(* Event pages with up to MaxParas paragraphs between the section anchor   *)
(* and the results table.                                                  *)

PlainPara  == [marker |-> FALSE, stars |-> FALSE, inner |-> <<>>]
MarkedPara == [marker |-> TRUE,  stars |-> TRUE,  inner |-> <<"P", "(", "3", "c", "m">>]
OtherPara  == [marker |-> TRUE,  stars |-> TRUE,  inner |-> <<"c", " ", "(", "3", "0", "c", "m">>]
BarePara   == [marker |-> TRUE,  stars |-> FALSE, inner |-> <<>>]

SectionParas == {PlainPara, MarkedPara, OtherPara, BarePara}

ParaElems(ps) == [i \in 1..Len(ps) |-> Para(ps[i])]

InitPara ==
    /\ pc = "start"
    /\ \E ps \in SeqsUpTo(SectionParas, MaxParas) :
          soup = Page((<<Anchor(AnchorId(1, UnderhandChop))>> \o ParaElems(ps))
                      \o <<Table(WoodRows)>>)
    /\ results = <<>>
    /\ scan_results = <<>>
    /\ athlete_name = <<"a">>
    /\ athlete_url = BASE_URL \o ProfileOne
    /\ discipline_label = <<>>
    /\ ListIdle
    /\ QueryIdle
    /\ DetectIdle

SpecPara == InitPara /\ [][NextEvent]_vars

\* the positions of the paragraphs after the anchor that contain the marker
MarkedAt == {i \in 2..Len(soup.body) : soup.body[i].tag = "p" /\ soup.body[i].para.marker}

\* the wood description the claim names: that of the first such paragraph
ClaimedWood ==
    IF MarkedAt = {} THEN <<>>
    ELSE LET p == soup.body[CHOOSE i \in MarkedAt : \A j \in MarkedAt : i <= j].para
         IN  IF p.stars THEN Strip(p.inner) ELSE <<>>

\* C12 as stated: the wood description of a section is that of the first
\* paragraph after the anchor that contains the marker phrase, whatever
\* paragraphs without the marker lie before it: every record of the section,
\* in the event scrape and in the athlete scan, has the size and the species
\* of that description.
C12_Original ==
    pc = "done" =>
        /\ Len(results) = 2 /\ Len(scan_results) = 2
        /\ \A r \in AllRecords :
              /\ r.Size = WoodSizeMm(ClaimedWood)
              /\ r.Species = WoodSpecies(ClaimedWood)

----------------------------------------------------------------------------
(* _find_athlete_url(athlete_name) on a site whose 2025 listing can hold   *)
(* four events and whose pages can fail.                                   *)

\* line 501: entry
StartSearch ==
    /\ pc = "start"
    /\ pending' = SearchSeasonsList
    /\ fetch_log' = <<>>
    /\ athlete_url' = <<>>
    /\ pc' = "search"
    /\ UNCHANGED <<soup, results, scan_results, athlete_name, discipline_label, site,
                   season, seasons_list, limit, all_events, queryVars>>
    /\ UNCHANGED detectVars

\* lines 503-516: one season, with the return at the first matching link
SearchSeason ==
    /\ pc = "search"
    /\ pending # <<>>
    /\ LET url == ListingUrl(Head(pending))
           events == GetEventsForSeason(GetPage(url, {}), Limit(SearchLimit))
           r == SearchEvents(Take(events, SearchEventsPerSeason), athlete_name, {},
                             Append(fetch_log, url))
       IN  /\ fetch_log' = r.log
           /\ athlete_url' = r.url
           /\ pc' = IF r.found THEN "done" ELSE "search"
    /\ pending' = Tail(pending)
    /\ UNCHANGED <<soup, results, scan_results, athlete_name, discipline_label, site,
                   season, seasons_list, limit, all_events, queryVars>>
    /\ UNCHANGED detectVars

\* line 518: return None
FinishSearch ==
    /\ pc = "search"
    /\ pending = <<>>
    /\ athlete_url' = <<>>
    /\ pc' = "done"
    /\ UNCHANGED <<soup, results, scan_results, athlete_name, discipline_label,
                   listVars, queryVars>>
    /\ UNCHANGED detectVars

NextSearch == StartSearch \/ SearchSeason \/ FinishSearch

ProfileThree == <<"/Athlete/", "3">>

\* an event page with three athlete links in two tables
SearchPageMixed ==
    Page(<<Table(<<HeaderRow,
                   Row(5, <<"b">>, TRUE, ProfileTwo, <<"1">>, <<>>),
                   Row(5, <<"A", " ", "b">>, TRUE, ProfileOne, <<"2">>, <<>>)>>),
           Table(<<HeaderRow,
                   Row(5, <<"a">>, TRUE, ProfileThree, <<"1">>, <<>>)>>)>>)

\* an event page whose only link named "a" is not an athlete-profile link
SearchPageTeam ==
    Page(<<Table(<<HeaderRow,
                   Row(5, <<"a">>, TRUE, <<"/Team/", "1">>, <<"1">>, <<>>),
                   Row(5, <<"c">>, TRUE, ProfileTwo, <<"2">>, <<>>),
                   Row(5, <<"a">>, FALSE, <<>>, <<"3">>, <<>>)>>)>>)

\* a listing whose rows link the events ds, after a row without link
ListingWithHeader(ds) ==
    Page(<<ListRow(<<>>, <<<<"h">>>>)>> \o ListingOf2(ds).body)

SearchSiteOf(l25, l24, e1, e2, e3, e4) ==
    (ListingUrl("2025") :> l25) @@ (ListingUrl("2024") :> l24)
    @@ (ListingUrl("2023") :> ListingOf2(<<"3">>))
    @@ (EventUrl("1") :> e1) @@ (EventUrl("2") :> e2)
    @@ (EventUrl("3") :> e3) @@ (EventUrl("4") :> e4)

SearchSites ==
    {SearchSiteOf(l25, l24, e1, e2, e3, e4) :
        l25 \in {ListingWithHeader(<<"1", "2", "3", "4">>), ListingOf2(<<"4", "1">>),
                 ListingOf2(<<>>), NoPage},
        l24 \in {ListingOf2(<<"2">>), ListingOf2(<<"4", "3">>)},
        e1 \in {SearchPageMixed, SearchPageTeam, NoPage},
        e2 \in {SearchPageMixed, SearchPageTeam, NoPage},
        e3 \in {SearchPageMixed, SearchPageTeam, NoPage},
        e4 \in {SearchPageMixed, SearchPageTeam}}

SearchNames == {<<"a">>, <<"B">>, <<"z">>}

InitSearch ==
    /\ pc = "start"
    /\ soup = NoPage
    /\ results = <<>>
    /\ scan_results = <<>>
    /\ athlete_name \in SearchNames
    /\ athlete_url = <<>>
    /\ discipline_label = <<>>
    /\ site \in SearchSites
    /\ fetch_log = <<>>
    /\ season = NoSeason
    /\ seasons_list = <<>>
    /\ limit = NoLimit
    /\ pending = <<>>
    /\ all_events = <<>>
    /\ QueryIdle
    /\ DetectIdle

SpecSearch == InitSearch /\ [][NextSearch]_vars

\* the URLs of the first three event rows of the listing of season s (a row
\* of these listings holds no link or one link to an event)
FirstThreeOf(s) ==
    LET listing == site[ListingUrl(s)]
        at == IF listing.ok
              THEN Ascending({i \in 1..Len(listing.body) :
                                 /\ listing.body[i].links # <<>>
                                 /\ listing.body[i].links[1].href[1] = "/Event/"})
              ELSE <<>>
    IN  [k \in 1..(IF Len(at) < 3 THEN Len(at) ELSE 3) |->
            BASE_URL \o listing.body[at[k]].links[1].href]

\* the order of the visit: each search season's listing, then its first three events
VisitPlan ==
    ((<<ListingUrl("2025")>> \o FirstThreeOf("2025"))
     \o (<<ListingUrl("2024")>> \o FirstThreeOf("2024")))
    \o (<<ListingUrl("2023")>> \o FirstThreeOf("2023"))

\* the visits that find the name: event pages that loaded and hold it in a link
HitsAt == {k \in 1..Len(VisitPlan) :
              /\ IsEventUrl(VisitPlan[k])
              /\ site[VisitPlan[k]].ok
              /\ NameOnPage(site[VisitPlan[k]].body, athlete_name)}

\* the target of the first link of the page, in document order, that holds the name
FirstNamedTarget(page, name) ==
    LET cand == UNION {{<<i, k>> : k \in {x \in 1..Len(page[i].rows) :
                                             RowLinkNames(page[i].rows[x], name)}} :
                       i \in {y \in 1..Len(page) : page[y].tag = "table"}}
        first == CHOOSE p \in cand :
                     \A q \in cand : p[1] < q[1] \/ (p[1] = q[1] /\ p[2] <= q[2])
    IN  page[first[1]].rows[first[2]].href

\* C13: the search requests the listings of 2025, 2024, 2023 in that order
\* and, after each, at most its first three listed events in listing order;
\* it returns the origin followed by the target of the first athlete-profile
\* link, in that visiting order and in document order within the page, whose
\* text contains the name case-insensitively, and requests nothing after the
\* page of that link; without such a link it visits everything and returns
\* nothing.
C13_FirstMatchStops ==
    /\ \A i \in 1..Len(fetch_log) : i <= Len(VisitPlan) /\ fetch_log[i] = VisitPlan[i]
    /\ pc = "done" =>
          IF HitsAt = {}
          THEN fetch_log = VisitPlan /\ athlete_url = <<>>
          ELSE LET k == CHOOSE x \in HitsAt : \A y \in HitsAt : x <= y
               IN  /\ fetch_log = SubSeq(VisitPlan, 1, k)
                   /\ athlete_url =
                         BASE_URL \o FirstNamedTarget(site[VisitPlan[k]].body, athlete_name)

\* four events listed for 2025 of which only the fourth names "a": the
\* search passes over it, finds it as first event of 2024, takes the second of
\* its three links and never requests the 2023 listing
C13_Witness ==
    /\ pc = "done"
    /\ athlete_name = <<"a">>
    /\ fetch_log = <<ListingUrl("2025"), EventUrl("1"), EventUrl("2"), EventUrl("3"),
                     ListingUrl("2024"), EventUrl("4")>>
    /\ site[EventUrl("4")] = SearchPageMixed
    /\ athlete_url = BASE_URL \o ProfileOne

----------------------------------------------------------------------------
(* detect_all_available_seasons(start_year, end_year)                      *)

DefaultStartYear == 2000

\* str(year)
YearStr(y) == ToString(y)

\* lines 150-151 with every probed year taken as available
Probed_Always(available, found, y) == Append(available, YearStr(y))

\* lines 150-151: if events: available_seasons.append(str(year))
Probed(available, found, y) ==
    IF found # <<>> THEN Append(available, YearStr(y)) ELSE available

\* lines 137-147: the defaults and the start of the loop
StartDetect ==
    /\ pc = "start"
    /\ start_year' = IF start_year # NoYear THEN start_year ELSE DefaultStartYear
    /\ end_year' = IF end_year # NoYear THEN end_year ELSE current_year + 1
    /\ year' = end_year'
    /\ available_seasons' = <<>>
    /\ pc' = "probe"
    /\ UNCHANGED <<current_year, probe_events, pageVars, listVars, queryVars>>

\* lines 147-155: one year of range(end_year, start_year - 1, -1)
ProbeYear ==
    /\ pc = "probe"
    /\ year > start_year - 1
    /\ LET url == ListingUrl(YearStr(year))
           found == GetEventsForSeason(GetPage(url, {}), Limit(1))
       IN  /\ fetch_log' = Append(fetch_log, url)
           /\ probe_events' = found
           /\ available_seasons' = Probed(available_seasons, found, year)
    /\ year' = year - 1
    /\ UNCHANGED <<pc, start_year, end_year, current_year, pageVars, site, season,
                   seasons_list, limit, pending, all_events, queryVars>>

\* lines 157-158
FinishDetect ==
    /\ pc = "probe"
    /\ ~(year > start_year - 1)
    /\ pc' = "done"
    /\ UNCHANGED <<detectVars, pageVars, listVars, queryVars>>

NextDetect == StartDetect \/ ProbeYear \/ FinishDetect

\* the years whose listing can differ from an empty page
RecentYears == 2024..2026

CurrentYears == {2025, 2026}

\* the site: every year from 2000 has a listing, empty before 2024
DetectSites ==
    {[u \in {ListingUrl(YearStr(y)) : y \in DefaultStartYear..2027} |->
         IF \E y \in RecentYears : u = ListingUrl(YearStr(y))
         THEN f[CHOOSE y \in RecentYears : u = ListingUrl(YearStr(y))]
         ELSE Page(<<>>)] :
     f \in [RecentYears -> ListingPages]}

InitDetect ==
    /\ pc = "start"
    /\ PageIdle
    /\ QueryIdle
    /\ site \in DetectSites
    /\ fetch_log = <<>>
    /\ season = NoSeason
    /\ seasons_list = <<>>
    /\ limit = NoLimit
    /\ pending = <<>>
    /\ all_events = <<>>
    /\ start_year \in {NoYear, 2024, 2025, 2027}
    /\ end_year \in {NoYear, 2025, 2026}
    /\ current_year \in CurrentYears
    /\ year = NoYear
    /\ probe_events = <<>>
    /\ available_seasons = <<>>

SpecDetect == InitDetect /\ [][NextDetect]_vars

\* the listing of year y loads and has a row that links an event
HasEvents(y) ==
    \E u \in DOMAIN site :
        /\ u = ListingUrl(YearStr(y))
        /\ site[u].ok
        /\ \E i \in 1..Len(site[u].body) : EventTargets(site[u].body[i]) # {}

\* the years from hi down to lo that have events, as season strings
RECURSIVE AvailableFrom(_, _)
AvailableFrom(hi, lo) ==
    IF hi < lo THEN <<>>
    ELSE (IF HasEvents(hi) THEN <<YearStr(hi)>> ELSE <<>>) \o AvailableFrom(hi - 1, lo)

\* C14: the probes are listing fetches of the years end_year, end_year - 1,
\* ... in that order, one per year, each returning at most one event; the
\* seasons found so far are, in descending order, exactly the probed years
\* whose listing has an event; and at the end every year down to start_year
\* has been probed exactly once.
C14_ProbesDescending ==
    pc # "start" =>
        /\ fetch_log = [i \in 1..Len(fetch_log) |-> ListingUrl(YearStr(end_year - i + 1))]
        /\ Len(fetch_log) = end_year - year
        /\ Len(probe_events) <= 1
        /\ available_seasons = AvailableFrom(end_year, year + 1)
        /\ pc = "done" =>
              /\ year = (IF start_year <= end_year THEN start_year ELSE end_year + 1) - 1
              /\ available_seasons = AvailableFrom(end_year, start_year)

\* 2026 down to 2024 probed: 2026 lists two events, 2025 fails to load or is
\* empty, 2024 has events; the probe of 2024 returned one event
C14_Witness ==
    /\ pc = "done"
    /\ start_year = 2024 /\ end_year = 2026
    /\ fetch_log = <<ListingUrl("2026"), ListingUrl("2025"), ListingUrl("2024")>>
    /\ Len(site[ListingUrl("2026")].body) = 2
    /\ ~HasEvents(2025)
    /\ available_seasons = <<"2026", "2024">>
    /\ Len(probe_events) = 1

----------------------------------------------------------------------------
(* The identity used by the scan *)

\* the requests made before the profile page was requested
RECURSIVE BeforeProfile(_)
BeforeProfile(log) ==
    IF log = <<>> \/ Head(log) = athlete_url THEN <<>>
    ELSE <<Head(log)>> \o BeforeProfile(Tail(log))

QueryRecords == {all_results[i] : i \in 1..Len(all_results)} \cup {df[i] : i \in 1..Len(df)}

\* the query got past the identification
Resolved == pc = "scan" \/ (pc = "done" /\ athlete_name # <<>>)

\* once resolved: the profile page was requested exactly once, after the
\* requests of the search only and before every listing of the scan, and all
\* records carry the resolved profile URL
IdentityFirst ==
    /\ \A r \in QueryRecords : r.ProfileURL = athlete_url
    /\ Resolved =>
          /\ athlete_url # <<>>
          /\ Cardinality({i \in 1..Len(fetch_log) : fetch_log[i] = athlete_url}) = 1
          /\ ListingsIn(AfterProfile(fetch_log))
                = [i \in 1..(Len(seasons_to_search) - Len(pending)) |->
                       ListingUrl(seasons_to_search[i])]
          /\ ListingsIn(BeforeProfile(fetch_log))
                = IF StartsWithHttp(athlete_name_or_url) THEN <<>>
                  ELSE SubSeq(SearchListings, 1, Len(ListingsIn(BeforeProfile(fetch_log))))

\* a step of the scan phase leaves the identity as it is and requests no profile page
IdentityKept ==
    pc = "scan" =>
        /\ athlete_url' = athlete_url
        /\ athlete_name' = athlete_name
        /\ \A i \in (Len(fetch_log) + 1)..Len(fetch_log') :
              IsListingUrl(fetch_log'[i]) \/ IsEventUrl(fetch_log'[i])

\* C15: within one athlete query the identity is resolved once, before any
\* season of the scan is listed, no step of the scan changes it, and every
\* record collected or returned carries the resolved profile URL, whether the
\* matching row has no link, a link to that profile or a link to another one.
C15_IdentityReused == []IdentityFirst /\ [][IdentityKept]_vars

\* the name "a" resolved to the first profile; the result holds a record of
\* a row linked to the second profile and a record of a row without link,
\* both carrying the first profile's URL
C15_Witness ==
    /\ pc = "done"
    /\ athlete_name_or_url = <<"a">>
    /\ athlete_url = BASE_URL \o ProfileOne
    /\ site[EventUrl("2")] = EventPageOther
    /\ \E k, l \in 1..Len(df) :
          /\ df[k].Name = <<"c", "a">> /\ df[k].ProfileURL = BASE_URL \o ProfileOne
          /\ df[l].Name = <<"A", "b">> /\ df[l].ProfileURL = BASE_URL \o ProfileOne

====
